---------------------------- MODULE Spec2Model ----------------------------
(***************************************************************************)
(* libnvme, src/nvme/json.c: the JSON configuration reader                 *)
(* (json_read_config), the configuration writer (json_update_config) and   *)
(* the diagnostic dump (json_dump_tree), over the live topology            *)
(* root -> hosts -> subsystems -> controllers.                             *)
(*                                                                         *)
(* A JSON value is a record with a type tag "t"; an object is the          *)
(* insertion-ordered sequence of its <<key, value>> entries, an array the  *)
(* sequence of its elements.  A C string pointer is a string, NULL the     *)
(* distinguished string below.                                             *)
(***************************************************************************)
EXTENDS Integers, Sequences, FiniteSets, TLC

VARIABLES
    root,       \* the live topology r: the sequence of hosts
    root0,      \* the topology when the current operation started
    file,       \* the configuration file: [exists, chunks, text]
    env,        \* the answers of the resolvers and of the secret store
    pc,         \* position of the operation in progress
    fd_pos,     \* parse_json: number of read() calls that returned data
    len,        \* parse_json: bytes accumulated so far (in chunks)
    json_root,  \* json_read_config: the parsed document
    h_idx,      \* json_read_config: index h of the host loop
    ret,        \* return value of the operation
    errno,      \* errno left by the operation
    calls,      \* secret-store calls made so far, in order
    out,        \* the document json_update_config / json_dump_tree built
    orig        \* the topology kept for comparison: the one that was
                \* exported (round trip), the one the first import left
                \* (repeated import)

vars == <<root, root0, file, env, pc, fd_pos, len, json_root, h_idx, ret,
          errno, calls, out, orig>>

----------------------------------------------------------------------------
(* Bounds of the model *)

\* ordinary integer tunables in live nodes and documents range over 0..MaxInt
MaxInt == 1
\* a configuration file is read in at most MaxChunks read() calls
MaxChunks == 2

----------------------------------------------------------------------------
(* C and library constants *)

NULL == "NULL"
NVMF_DEF_CTRL_LOSS_TMO == 600
NVME_DISC_SUBSYS_NAME == "nqn.2014-08.org.nvmexpress.discovery"
ENOENT == "ENOENT"
EPROTO == "EPROTO"
EIO == "EIO"
NOERR == "0"

----------------------------------------------------------------------------
(* json-c values *)

JNull == [t |-> "null"]
json_object_new_int(i) == [t |-> "int", i |-> i]
json_object_new_boolean(b) == [t |-> "boolean", b |-> b]
json_object_new_string(s) == [t |-> "string", s |-> s]
json_object_new_array == [t |-> "array", a |-> <<>>]
json_object_new_object == [t |-> "object", o |-> <<>>]

json_object_is_type(v, type) == v.t = type

\* decimal strings the model's documents may carry where a number is expected
StrToInt(s) ==
    CASE s = "0" -> 0
      [] s = "1" -> 1
      [] s = "2" -> 2
      [] OTHER -> 0

IntToStr(i) ==
    CASE i = 0 -> "0"
      [] i = 1 -> "1"
      [] i = 2 -> "2"
      [] i = -1 -> "-1"
      [] OTHER -> "<int>"

\* json_object_get_int: an int as is, a boolean as 0/1, a string parsed
json_object_get_int(v) ==
    CASE v.t = "int" -> v.i
      [] v.t = "boolean" -> (IF v.b THEN 1 ELSE 0)
      [] v.t = "string" -> StrToInt(v.s)
      [] OTHER -> 0

\* json_object_get_boolean: a boolean as is, an int as (i != 0), a string
\* as (length != 0)
json_object_get_boolean(v) ==
    CASE v.t = "boolean" -> v.b
      [] v.t = "int" -> v.i # 0
      [] v.t = "string" -> v.s # ""
      [] OTHER -> FALSE

\* json_object_get_string: a string as is, NULL for the null object,
\* anything else in its JSON text form
json_object_get_string(v) ==
    CASE v.t = "string" -> v.s
      [] v.t = "null" -> NULL
      [] v.t = "int" -> IntToStr(v.i)
      [] v.t = "boolean" -> (IF v.b THEN "true" ELSE "false")
      [] OTHER -> "<json>"

\* json_object_object_get: the value stored under key, or the null object
json_object_object_get(obj, key) ==
    IF \E i \in 1..Len(obj.o) : obj.o[i][1] = key
    THEN obj.o[CHOOSE i \in 1..Len(obj.o) : obj.o[i][1] = key][2]
    ELSE JNull

\* json_object_object_add: replace the value of an existing key, else append
json_object_object_add(obj, key, val) ==
    IF \E i \in 1..Len(obj.o) : obj.o[i][1] = key
    THEN [obj EXCEPT !.o = [i \in 1..Len(obj.o) |->
                IF obj.o[i][1] = key THEN <<key, val>> ELSE obj.o[i]]]
    ELSE [obj EXCEPT !.o = Append(obj.o, <<key, val>>)]

json_object_array_add(arr, val) == [arr EXCEPT !.a = Append(arr.a, val)]
json_object_array_length(arr) == Len(arr.a)
json_object_array_get_idx(arr, i) == arr.a[i + 1]

\* a key of an object holds a non-null value
HasKey(obj, key) == json_object_object_get(obj, key) # JNull

----------------------------------------------------------------------------
(* struct nvme_fabrics_config and the controller, as json.c reads and     *)
(* writes them                                                            *)

IntOptions == <<"nr_io_queues", "nr_write_queues", "nr_poll_queues",
                "queue_size", "keep_alive_tmo", "reconnect_delay",
                "ctrl_loss_tmo", "fast_io_fail_tmo", "tos">>
BoolOptions == <<"duplicate_connect", "disable_sqflow", "hdr_digest",
                 "data_digest", "tls", "concat">>

\* the configuration of a controller nothing has been set on
DefaultCfg ==
    [nr_io_queues |-> 0, nr_write_queues |-> 0, nr_poll_queues |-> 0,
     queue_size |-> 0, keep_alive_tmo |-> 0, reconnect_delay |-> 0,
     ctrl_loss_tmo |-> NVMF_DEF_CTRL_LOSS_TMO, fast_io_fail_tmo |-> 0,
     tos |-> -1,
     duplicate_connect |-> FALSE, disable_sqflow |-> FALSE,
     hdr_digest |-> FALSE, data_digest |-> FALSE, tls |-> FALSE,
     concat |-> FALSE, keyring |-> 0, tls_key |-> 0]

\* a controller as the resolver creates it
NewCtrl(transport, traddr, host_traddr, host_iface, trsvcid) ==
    [transport |-> transport, traddr |-> traddr, host_traddr |-> host_traddr,
     host_iface |-> host_iface, trsvcid |-> trsvcid, name |-> NULL,
     cfg |-> DefaultCfg, persistent |-> FALSE, discovery_ctrl |-> FALSE,
     dhchap_key |-> NULL, dhchap_ctrl_key |-> NULL]

NewSubsystem(nqn) ==
    [subsysnqn |-> nqn, name |-> NULL, application |-> NULL, ctrls |-> <<>>]

NewHost(hostnqn, hostid) ==
    [hostnqn |-> hostnqn, hostid |-> hostid, dhchap_key |-> NULL,
     hostsymname |-> NULL, pdc_enabled |-> FALSE,
     pdc_enabled_valid |-> FALSE, subsystems |-> <<>>]

----------------------------------------------------------------------------
(* The secret store (keyring subsystem) and the PSK interchange codec:    *)
(* external to json.c, answered from env                                  *)

\* nvme_lookup_keyring: the serial of the keyring with this description,
\* 0 when there is none; a NULL description names the default keyring
nvme_lookup_keyring(e, keyring_str) ==
    IF keyring_str \in DOMAIN e.keyrings THEN e.keyrings[keyring_str] ELSE 0

\* nvme_describe_key_serial: the description of a serial, NULL when unknown
nvme_describe_key_serial(e, serial) ==
    IF \E d \in DOMAIN e.keyrings : e.keyrings[d] = serial
    THEN CHOOSE d \in DOMAIN e.keyrings : e.keyrings[d] = serial
    ELSE NULL

\* nvme_import_tls_key: decode the interchange format into key bytes and
\* the hmac identifier; NULL (ok = FALSE) when the string does not decode
nvme_import_tls_key(encoded_key) ==
    CASE encoded_key = "NVMeTLSkey-1:01:AAAA:" ->
            [ok |-> TRUE, key_data |-> "AAAA", hmac |-> 1]
      [] encoded_key = "NVMeTLSkey-1:02:BBBB:" ->
            [ok |-> TRUE, key_data |-> "BBBB", hmac |-> 2]
      [] OTHER -> [ok |-> FALSE, key_data |-> NULL, hmac |-> 0]

\* nvme_export_tls_key: encode key bytes into the interchange format
nvme_export_tls_key(key_data) ==
    CASE key_data = "AAAA" -> "NVMeTLSkey-1:01:AAAA:"
      [] key_data = "BBBB" -> "NVMeTLSkey-1:02:BBBB:"
      [] OTHER -> NULL

\* nvme_insert_tls_key_versioned: the id of the inserted key, <= 0 on error
nvme_insert_tls_key_versioned(e, keyring_str, key_data) ==
    IF <<keyring_str, key_data>> \in DOMAIN e.insert
    THEN e.insert[<<keyring_str, key_data>>] ELSE -1

\* nvme_read_key: the bytes of a key of a keyring, NULL when not readable
nvme_read_key(e, keyring_id, tls_key) ==
    IF tls_key \in DOMAIN e.keys THEN e.keys[tls_key] ELSE NULL

\* one secret-store call, as recorded in calls
Call(fn, keyring, key) == [fn |-> fn, keyring |-> keyring, key |-> key]

----------------------------------------------------------------------------
(* Import: json_update_attributes and json_import_nvme_tls_key.         *)
(* st = [c, keyring_str, encoded_key, calls] is what the function holds  *)
(* while it works on controller c: the controller, its two locals and    *)
(* the secret-store calls made so far.                                   *)

JSON_UPDATE_INT_OPTION(c, k, a, o) ==
    IF a = k /\ c[a] = 0 THEN [c EXCEPT ![a] = json_object_get_int(o)] ELSE c

JSON_UPDATE_BOOL_OPTION(c, k, a, o) ==
    IF a = k /\ ~c[a] THEN [c EXCEPT ![a] = json_object_get_boolean(o)] ELSE c

\* lines 98-100: the guard lets the document in when the live value is NOT
\* the default
UpdateCtrlLossTmo(cfg, key_str, val_obj) ==
    IF key_str = "ctrl_loss_tmo" /\ cfg.ctrl_loss_tmo # NVMF_DEF_CTRL_LOSS_TMO
    THEN [cfg EXCEPT !.ctrl_loss_tmo = json_object_get_int(val_obj)]
    ELSE cfg

\* lines 103-104: the guard lets the document in when the live value is NOT -1
UpdateTos(cfg, key_str, val_obj) ==
    IF key_str = "tos" /\ cfg.tos # -1
    THEN [cfg EXCEPT !.tos = json_object_get_int(val_obj)]
    ELSE cfg

\* lines 86-116: the option table applied to one key of the record
UpdateOptions(cfg, k, o) ==
    LET c1 == JSON_UPDATE_INT_OPTION(cfg, k, "nr_io_queues", o)
        c2 == JSON_UPDATE_INT_OPTION(c1, k, "nr_write_queues", o)
        c3 == JSON_UPDATE_INT_OPTION(c2, k, "nr_poll_queues", o)
        c4 == JSON_UPDATE_INT_OPTION(c3, k, "queue_size", o)
        c5 == JSON_UPDATE_INT_OPTION(c4, k, "keep_alive_tmo", o)
        c6 == JSON_UPDATE_INT_OPTION(c5, k, "reconnect_delay", o)
        c7 == UpdateCtrlLossTmo(c6, k, o)
        c8 == JSON_UPDATE_INT_OPTION(c7, k, "fast_io_fail_tmo", o)
        c9 == UpdateTos(c8, k, o)
        c10 == JSON_UPDATE_BOOL_OPTION(c9, k, "duplicate_connect", o)
        c11 == JSON_UPDATE_BOOL_OPTION(c10, k, "disable_sqflow", o)
        c12 == JSON_UPDATE_BOOL_OPTION(c11, k, "hdr_digest", o)
        c13 == JSON_UPDATE_BOOL_OPTION(c12, k, "data_digest", o)
        c14 == JSON_UPDATE_BOOL_OPTION(c13, k, "tls", o)
    IN  JSON_UPDATE_BOOL_OPTION(c14, k, "concat", o)

\* lines 117-119
UpdatePersistent(c, key_str, val_obj) ==
    IF key_str = "persistent" /\ ~c.persistent
    THEN [c EXCEPT !.persistent = TRUE] ELSE c

\* lines 120-122
UpdateDiscovery(c, key_str, val_obj) ==
    IF key_str = "discovery" /\ ~c.discovery_ctrl
    THEN [c EXCEPT !.discovery_ctrl = TRUE] ELSE c

\* lines 131-135: the serial nvme_lookup_keyring returned for keyring_str
SetKeyring(st, keyring_str, keyring) ==
    IF keyring # 0
    THEN [st EXCEPT !.keyring_str = keyring_str,
                    !.c.cfg.keyring = keyring,
                    !.calls = @ \o <<Call("nvme_lookup_keyring",
                                          keyring_str, NULL),
                                     Call("nvme_set_keyring",
                                          keyring_str, NULL)>>]
    ELSE [st EXCEPT !.keyring_str = keyring_str,
                    !.calls = Append(@, Call("nvme_lookup_keyring",
                                             keyring_str, NULL))]

\* lines 130-131
LookupKeyring(st, e, keyring_str) ==
    SetKeyring(st, keyring_str, nvme_lookup_keyring(e, keyring_str))

\* lines 127-136: the keyring description, resolved to its serial
UpdateKeyring(st, e, key_str, val_obj) ==
    IF key_str = "keyring" /\ st.c.cfg.keyring = 0
    THEN LookupKeyring(st, e, json_object_get_string(val_obj))
    ELSE st

\* lines 137-138: the encoded key is only remembered
UpdateTlsKey(st, key_str, val_obj) ==
    IF key_str = "tls_key" /\ st.c.cfg.tls_key = 0
    THEN [st EXCEPT !.encoded_key = json_object_get_string(val_obj)]
    ELSE st

\* lines 53-59: the id nvme_insert_tls_key_versioned returned
SetTlsKey(st, keyring_str, key_data, key_id) ==
    IF key_id <= 0
    THEN [st EXCEPT !.calls = Append(@, Call("nvme_insert_tls_key_versioned",
                                             keyring_str, key_data))]
    ELSE [st EXCEPT !.calls = Append(@, Call("nvme_insert_tls_key_versioned",
                                             keyring_str, key_data)),
                    !.c.cfg.tls_key = key_id,
                    !.c.cfg.tls = TRUE]

\* lines 44-52: key is what nvme_import_tls_key decoded
InsertTlsKey(st, e, keyring_str, key) ==
    IF ~key.ok THEN st
    ELSE SetTlsKey(st, keyring_str, key.key_data,
                   nvme_insert_tls_key_versioned(e, keyring_str,
                                                 key.key_data))

\* lines 28-60
json_import_nvme_tls_key(st, e, hostnqn, subsysnqn, keyring_str, encoded_key) ==
    IF hostnqn = NULL \/ subsysnqn = NULL THEN st
    ELSE InsertTlsKey(st, e, keyring_str, nvme_import_tls_key(encoded_key))

\* lines 86-122: the part of the loop body that works on the controller
UpdateCtrl(c, key_str, val_obj) ==
    UpdateDiscovery(
        UpdatePersistent(
            [c EXCEPT !.cfg = UpdateOptions(@, key_str, val_obj)],
            key_str, val_obj),
        key_str, val_obj)

\* a loop body that imports the key as soon as tls_key is met, with the
\* keyring seen so far
json_update_attributes_entry_eager(st, e, key_str, val_obj) ==
    IF key_str = "tls_key" /\ st.c.cfg.tls_key = 0
    THEN InsertTlsKey(st, e, st.keyring_str,
                      nvme_import_tls_key(json_object_get_string(val_obj)))
    ELSE UpdateKeyring([st EXCEPT !.c = UpdateCtrl(@, key_str, val_obj)],
                       e, key_str, val_obj)

\* lines 85-139: the body of json_object_object_foreach for one entry
json_update_attributes_entry(st, e, key_str, val_obj) ==
    UpdateTlsKey(
        UpdateKeyring([st EXCEPT !.c = UpdateCtrl(@, key_str, val_obj)],
                      e, key_str, val_obj),
        key_str, val_obj)

RECURSIVE json_update_attributes_foreach(_, _, _, _)
json_update_attributes_foreach(st, e, entries, i) ==
    IF i > Len(entries) THEN st
    ELSE json_update_attributes_foreach(
             json_update_attributes_entry(st, e, entries[i][1], entries[i][2]),
             e, entries, i + 1)

\* an import that takes the key only once TLS is enabled
ImportTlsKey_tls_only(st, e, hostnqn, subsysnqn) ==
    IF st.encoded_key # NULL /\ st.c.cfg.tls
    THEN json_import_nvme_tls_key(st, e, hostnqn, subsysnqn,
                                  st.keyring_str, st.encoded_key)
    ELSE st

\* lines 146-147
ImportTlsKey(st, e, hostnqn, subsysnqn) ==
    IF st.encoded_key # NULL
    THEN json_import_nvme_tls_key(st, e, hostnqn, subsysnqn,
                                  st.keyring_str, st.encoded_key)
    ELSE st

\* lines 79-148: the controller and the secret-store calls after the
\* record ctrl_obj was applied to controller c
json_update_attributes(c, e, hostnqn, subsysnqn, ctrl_obj, calls0) ==
    ImportTlsKey(
        json_update_attributes_foreach(
            [c |-> c, keyring_str |-> NULL, encoded_key |-> NULL,
             calls |-> calls0],
            e, ctrl_obj.o, 1),
        e, hostnqn, subsysnqn)

----------------------------------------------------------------------------
(* The topology resolvers and setters of tree.c: external to json.c.      *)
(* A node is named by its index in its parent's list; 0 is the NULL node. *)
(* ps = [r, calls, segv] is the state the tree walk threads through: the  *)
(* hosts, the secret-store calls, and whether a NULL node was used.       *)

\* nvme_lookup_host: the host with this hostnqn (and hostid, when one is
\* given), created when there is none; NULL when the resolver fails
HostMatches(h, hostnqn, hostid) ==
    h.hostnqn = hostnqn /\ (hostid = NULL \/ h.hostid = hostid)

nvme_lookup_host(ps, e, hostnqn, hostid) ==
    IF hostnqn \in e.no_host THEN [ps |-> ps, h |-> 0]
    ELSE IF \E i \in 1..Len(ps.r) : HostMatches(ps.r[i], hostnqn, hostid)
    THEN [ps |-> ps,
          h |-> CHOOSE i \in 1..Len(ps.r) :
                   /\ HostMatches(ps.r[i], hostnqn, hostid)
                   /\ \A j \in 1..(i - 1) :
                          ~HostMatches(ps.r[j], hostnqn, hostid)]
    ELSE [ps |-> [ps EXCEPT !.r = Append(@, NewHost(hostnqn, hostid))],
          h |-> Len(ps.r) + 1]

\* nvme_lookup_subsystem(h, NULL, nqn)
nvme_lookup_subsystem(ps, e, h, nqn) ==
    LET subs == ps.r[h].subsystems
    IN  IF nqn \in e.no_subsys THEN [ps |-> ps, s |-> 0]
        ELSE IF \E i \in 1..Len(subs) : subs[i].subsysnqn = nqn
        THEN [ps |-> ps,
              s |-> CHOOSE i \in 1..Len(subs) :
                       /\ subs[i].subsysnqn = nqn
                       /\ \A j \in 1..(i - 1) : subs[j].subsysnqn # nqn]
        ELSE [ps |-> [ps EXCEPT !.r[h].subsystems =
                                    Append(@, NewSubsystem(nqn))],
              s |-> Len(subs) + 1]

\* nvme_lookup_ctrl(s, transport, traddr, host_traddr, host_iface, trsvcid,
\* NULL): keyed by the five addressing fields
CtrlMatches(c, id) ==
    /\ c.transport = id.transport
    /\ c.traddr = id.traddr
    /\ c.host_traddr = id.host_traddr
    /\ c.host_iface = id.host_iface
    /\ c.trsvcid = id.trsvcid

nvme_lookup_ctrl(ps, e, h, s, id) ==
    LET ctrls == ps.r[h].subsystems[s].ctrls
    IN  IF id.transport \in e.no_ctrl THEN [ps |-> ps, c |-> 0]
        ELSE IF \E i \in 1..Len(ctrls) : CtrlMatches(ctrls[i], id)
        THEN [ps |-> ps,
              c |-> CHOOSE i \in 1..Len(ctrls) :
                       /\ CtrlMatches(ctrls[i], id)
                       /\ \A j \in 1..(i - 1) : ~CtrlMatches(ctrls[j], id)]
        ELSE [ps |-> [ps EXCEPT !.r[h].subsystems[s].ctrls =
                          Append(@, NewCtrl(id.transport, id.traddr,
                                            id.host_traddr, id.host_iface,
                                            id.trsvcid))],
              c |-> Len(ctrls) + 1]

\* the setters store what they are given
nvme_ctrl_set_dhchap_host_key(c, key) == [c EXCEPT !.dhchap_key = key]
nvme_ctrl_set_dhchap_key(c, key) == [c EXCEPT !.dhchap_ctrl_key = key]
nvme_subsystem_set_application(s, a) == [s EXCEPT !.application = a]
nvme_host_set_dhchap_key(h, key) == [h EXCEPT !.dhchap_key = key]
nvme_host_set_hostsymname(h, name) == [h EXCEPT !.hostsymname = name]
nvme_host_set_pdc_enabled(h, enabled) ==
    [h EXCEPT !.pdc_enabled_valid = TRUE, !.pdc_enabled = enabled]

----------------------------------------------------------------------------
(* Import: the tree walk                                                  *)

\* the string under key, NULL when the key is absent (lines 161-172)
OptString(obj, key) ==
    IF HasKey(obj, key)
    THEN json_object_get_string(json_object_object_get(obj, key))
    ELSE NULL

\* lines 178-183: the two dhchap keys, stored as the record gives them
SetCtrlDhchapKeys(c, port_obj) ==
    IF HasKey(port_obj, "dhchap_ctrl_key")
    THEN nvme_ctrl_set_dhchap_key(
             IF HasKey(port_obj, "dhchap_key")
             THEN nvme_ctrl_set_dhchap_host_key(c,
                      OptString(port_obj, "dhchap_key"))
             ELSE c,
             OptString(port_obj, "dhchap_ctrl_key"))
    ELSE IF HasKey(port_obj, "dhchap_key")
    THEN nvme_ctrl_set_dhchap_host_key(c, OptString(port_obj, "dhchap_key"))
    ELSE c

\* the controller c of subsystem s of host h and the calls as st leaves them
StoreCtrl(ps, h, s, c, st, port_obj) ==
    [ps EXCEPT !.r[h].subsystems[s].ctrls[c] =
                   SetCtrlDhchapKeys(st.c, port_obj),
               !.calls = st.calls]

\* lines 177-183, on the controller c nvme_lookup_ctrl returned
UpdatePort(ps, e, h, s, c, port_obj) ==
    StoreCtrl(ps, h, s, c,
              json_update_attributes(ps.r[h].subsystems[s].ctrls[c], e,
                  ps.r[h].hostnqn, ps.r[h].subsystems[s].subsysnqn,
                  port_obj, ps.calls),
              port_obj)

\* lines 175-176
CheckCtrl(ps, e, h, s, lk, port_obj) ==
    IF lk.c = 0 THEN ps ELSE UpdatePort(lk.ps, e, h, s, lk.c, port_obj)

\* lines 150-184
json_parse_port(ps, e, h, s, port_obj) ==
    IF ~HasKey(port_obj, "transport") THEN ps
    ELSE CheckCtrl(ps, e, h, s,
             nvme_lookup_ctrl(ps, e, h, s,
                 [transport |-> OptString(port_obj, "transport"),
                  traddr |-> OptString(port_obj, "traddr"),
                  host_traddr |-> OptString(port_obj, "host_traddr"),
                  host_iface |-> OptString(port_obj, "host_iface"),
                  trsvcid |-> OptString(port_obj, "trsvcid")]),
             port_obj)

\* lines 210-212
ParsePortAt(ps, e, h, s, port_obj) ==
    IF port_obj # JNull THEN json_parse_port(ps, e, h, s, port_obj) ELSE ps

\* lines 207-213
RECURSIVE json_parse_ports(_, _, _, _, _, _)
json_parse_ports(ps, e, h, s, port_array, p) ==
    IF p >= json_object_array_length(port_array) THEN ps
    ELSE json_parse_ports(
             ParsePortAt(ps, e, h, s,
                         json_object_array_get_idx(port_array, p)),
             e, h, s, port_array, p + 1)

\* lines 204-213
ParsePorts(ps, e, h, s, port_array) ==
    IF port_array = JNull THEN ps
    ELSE json_parse_ports(ps, e, h, s, port_array, 0)

\* lines 200-202
SetApplication(ps, h, s, subsys_obj) ==
    IF HasKey(subsys_obj, "application")
    THEN [ps EXCEPT !.r[h].subsystems[s] =
             nvme_subsystem_set_application(@,
                 OptString(subsys_obj, "application"))]
    ELSE ps

\* lines 198-213, on the subsystem nvme_lookup_subsystem returned
CheckSubsystem(ps, e, h, lk, subsys_obj) ==
    IF lk.s = 0 THEN ps
    ELSE ParsePorts(SetApplication(lk.ps, h, lk.s, subsys_obj), e, h, lk.s,
                    json_object_object_get(subsys_obj, "ports"))

\* lines 186-214.  h = 0 is the NULL host json_parse_host may pass on:
\* nvme_lookup_subsystem then works on a NULL pointer (ub says what the
\* build makes of that: a fault, or a NULL result)
json_parse_subsys(ps, e, h, subsys_obj, ub) ==
    IF ps.segv \/ ~HasKey(subsys_obj, "nqn") THEN ps
    ELSE IF h = 0
    THEN (IF ub = "segv" THEN [ps EXCEPT !.segv = TRUE] ELSE ps)
    ELSE CheckSubsystem(ps, e, h,
             nvme_lookup_subsystem(ps, e, h, OptString(subsys_obj, "nqn")),
             subsys_obj)

\* lines 244-246
ParseSubsysAt(ps, e, h, subsys_obj, ub) ==
    IF subsys_obj # JNull THEN json_parse_subsys(ps, e, h, subsys_obj, ub)
    ELSE ps

\* lines 243-247
RECURSIVE json_parse_subsystems(_, _, _, _, _, _)
json_parse_subsystems(ps, e, h, subsys_array, s, ub) ==
    IF s >= json_object_array_length(subsys_array) THEN ps
    ELSE json_parse_subsystems(
             ParseSubsysAt(ps, e, h,
                           json_object_array_get_idx(subsys_array, s), ub),
             e, h, subsys_array, s + 1, ub)

\* lines 240-247
ParseSubsystems(ps, e, h, subsys_array, ub) ==
    IF ps.segv \/ subsys_array = JNull THEN ps
    ELSE json_parse_subsystems(ps, e, h, subsys_array, 0, ub)

\* lines 231-233
SetHostDhchapKey(hst, host_obj) ==
    IF HasKey(host_obj, "dhchap_key")
    THEN nvme_host_set_dhchap_key(hst, OptString(host_obj, "dhchap_key"))
    ELSE hst

\* lines 234-236
SetHostSymname(hst, host_obj) ==
    IF HasKey(host_obj, "hostsymname")
    THEN nvme_host_set_hostsymname(hst, OptString(host_obj, "hostsymname"))
    ELSE hst

\* lines 237-239
SetHostPdc(hst, host_obj) ==
    IF HasKey(host_obj, "persistent_discovery_ctrl")
    THEN nvme_host_set_pdc_enabled(hst,
             json_object_get_boolean(
                 json_object_object_get(host_obj,
                                        "persistent_discovery_ctrl")))
    ELSE hst

\* lines 231-239: the host attributes.  The result of nvme_lookup_host is
\* used unchecked: with h = 0 each setter works on a NULL pointer
json_parse_host_attrs(ps, h, host_obj, ub) ==
    IF h = 0
    THEN (IF /\ ub = "segv"
             /\ \E k \in {"dhchap_key", "hostsymname",
                          "persistent_discovery_ctrl"} : HasKey(host_obj, k)
          THEN [ps EXCEPT !.segv = TRUE] ELSE ps)
    ELSE [ps EXCEPT !.r[h] =
             SetHostPdc(SetHostSymname(SetHostDhchapKey(@, host_obj),
                                       host_obj),
                        host_obj)]

\* lines 231-247, on the host nvme_lookup_host returned
UpdateHost(e, lk, host_obj, ub) ==
    ParseSubsystems(json_parse_host_attrs(lk.ps, lk.h, host_obj, ub), e,
                    lk.h, json_object_object_get(host_obj, "subsystems"), ub)

\* lines 216-248
json_parse_host(ps, e, host_obj, ub) ==
    IF ~HasKey(host_obj, "hostnqn") THEN ps
    ELSE UpdateHost(e,
             nvme_lookup_host(ps, e, OptString(host_obj, "hostnqn"),
                              OptString(host_obj, "hostid")),
             host_obj, ub)

\* lines 314-316
ParseHostAt(ps, e, host_obj, ub) ==
    IF host_obj # JNull THEN json_parse_host(ps, e, host_obj, ub) ELSE ps

----------------------------------------------------------------------------
(* Export: json_update_config and json_dump_tree                          *)

\* an export that takes 0 for the sentinel of every integer option
JSON_INT_OPTION_zero(c, p, o, d) ==
    IF c[o] # 0 THEN json_object_object_add(p, o, json_object_new_int(c[o]))
    ELSE p

JSON_INT_OPTION(c, p, o, d) ==
    IF c[o] # d THEN json_object_object_add(p, o, json_object_new_int(c[o]))
    ELSE p

JSON_BOOL_OPTION(c, p, o) ==
    IF c[o] THEN json_object_object_add(p, o, json_object_new_boolean(c[o]))
    ELSE p

\* "if (value) json_object_object_add(obj, key, json_object_new_string(value))"
AddString(obj, key, value) ==
    IF value # NULL
    THEN json_object_object_add(obj, key, json_object_new_string(value))
    ELSE obj

\* lines 62-77
json_export_nvme_tls_key(e, keyring_id, tls_key, obj) ==
    LET key_data == nvme_read_key(e, keyring_id, tls_key)
    IN  IF key_data # NULL
        THEN AddString(obj, "tls_key", nvme_export_tls_key(key_data))
        ELSE obj

\* lines 345-370 and 522-547: transport, addressing and dhchap keys
ExportIdentity(obj, c) ==
    LET o1 == json_object_object_add(obj, "transport",
                  json_object_new_string(c.transport))
        o2 == AddString(o1, "traddr", c.traddr)
        o3 == AddString(o2, "host_traddr", c.host_traddr)
        o4 == AddString(o3, "host_iface", c.host_iface)
        o5 == AddString(o4, "trsvcid", c.trsvcid)
        o6 == AddString(o5, "dhchap_key", c.dhchap_key)
    IN  AddString(o6, "dhchap_ctrl_key", c.dhchap_ctrl_key)

\* lines 371-382 and 548-559: the integer tunables
ExportIntOptions(obj, cfg, transport) ==
    LET o1 == JSON_INT_OPTION(cfg, obj, "nr_io_queues", 0)
        o2 == JSON_INT_OPTION(cfg, o1, "nr_write_queues", 0)
        o3 == JSON_INT_OPTION(cfg, o2, "nr_poll_queues", 0)
        o4 == JSON_INT_OPTION(cfg, o3, "queue_size", 0)
        o5 == JSON_INT_OPTION(cfg, o4, "keep_alive_tmo", 0)
        o6 == JSON_INT_OPTION(cfg, o5, "reconnect_delay", 0)
        o8 == IF transport # "loop"
              THEN JSON_INT_OPTION(cfg,
                       JSON_INT_OPTION(cfg, o6, "ctrl_loss_tmo",
                                       NVMF_DEF_CTRL_LOSS_TMO),
                       "fast_io_fail_tmo", 0)
              ELSE o6
    IN  JSON_INT_OPTION(cfg, o8, "tos", -1)

\* lines 389-391 and 572-574
ExportPersistent(obj, c) ==
    IF c.persistent
    THEN json_object_object_add(obj, "persistent",
                                json_object_new_boolean(TRUE))
    ELSE obj

\* lines 392-394 and 575-577
ExportDiscovery(obj, c) ==
    IF c.discovery_ctrl
    THEN json_object_object_add(obj, "discovery",
                                json_object_new_boolean(TRUE))
    ELSE obj

\* lines 389-394 and 572-577: the classification flags
ExportFlags(obj, c) == ExportDiscovery(ExportPersistent(obj, c), c)

\* lines 383-388: the boolean tunables of the configuration export
UpdatePortBoolOptions(obj, cfg) ==
    LET o1 == JSON_BOOL_OPTION(cfg, obj, "duplicate_connect")
        o2 == JSON_BOOL_OPTION(cfg, o1, "disable_sqflow")
        o3 == JSON_BOOL_OPTION(cfg, o2, "hdr_digest")
        o4 == JSON_BOOL_OPTION(cfg, o3, "data_digest")
        o5 == JSON_BOOL_OPTION(cfg, o4, "tls")
    IN  JSON_BOOL_OPTION(cfg, o5, "concat")

\* lines 398-406: the keyring description
UpdatePortKeyring(obj, e, cfg) ==
    IF cfg.keyring # 0
    THEN AddString(obj, "keyring", nvme_describe_key_serial(e, cfg.keyring))
    ELSE obj

\* lines 410-411: the TLS key in PSK interchange format
UpdatePortTlsKey(obj, e, cfg) ==
    IF cfg.tls_key # 0
    THEN json_export_nvme_tls_key(e, cfg.keyring, cfg.tls_key, obj)
    ELSE obj

\* lines 335-414
json_update_port(ctrl_array, e, c) ==
    IF c.transport = "pcie" THEN ctrl_array
    ELSE json_object_array_add(ctrl_array,
             UpdatePortTlsKey(
                 UpdatePortKeyring(
                     ExportFlags(
                         UpdatePortBoolOptions(
                             ExportIntOptions(
                                 ExportIdentity(json_object_new_object, c),
                                 c.cfg, c.transport),
                             c.cfg),
                         c),
                     e, c.cfg),
                 e, c.cfg))

RECURSIVE json_update_ports(_, _, _, _)
json_update_ports(port_array, e, ctrls, i) ==
    IF i > Len(ctrls) THEN port_array
    ELSE json_update_ports(json_update_port(port_array, e, ctrls[i]),
                           e, ctrls, i + 1)

\* lines 428-433: nqn and application
SubsysObj(s) ==
    AddString(json_object_object_add(json_object_new_object, "nqn",
                  json_object_new_string(s.subsysnqn)),
              "application", s.application)

\* an export that keeps a subsystem whatever its ports
AddSubsys_always(subsys_array, subsys_obj, port_array) ==
    json_object_array_add(subsys_array,
        json_object_object_add(subsys_obj, "ports", port_array))

\* lines 438-444: the subsystem is kept only with ports
AddSubsys(subsys_array, subsys_obj, port_array) ==
    IF json_object_array_length(port_array) # 0
    THEN json_object_array_add(subsys_array,
             json_object_object_add(subsys_obj, "ports", port_array))
    ELSE subsys_array

\* lines 416-445
json_update_subsys(subsys_array, e, s) ==
    IF s.subsysnqn = NVME_DISC_SUBSYS_NAME THEN subsys_array
    ELSE AddSubsys(subsys_array, SubsysObj(s),
                   json_update_ports(json_object_new_array, e, s.ctrls, 1))

RECURSIVE json_update_subsystems(_, _, _, _)
json_update_subsystems(subsys_array, e, subsystems, i) ==
    IF i > Len(subsystems) THEN subsys_array
    ELSE json_update_subsystems(
             json_update_subsys(subsys_array, e, subsystems[i]),
             e, subsystems, i + 1)

\* lines 477-479 and 627-629
ExportPdc(obj, h) ==
    IF h.pdc_enabled_valid
    THEN json_object_object_add(obj, "persistent_discovery_ctrl",
                                json_object_new_boolean(h.pdc_enabled))
    ELSE obj

\* lines 459-479 and 616-629 (the dump leaves out hostsymname)
ExportHost(h, symname) ==
    LET o1 == json_object_object_add(json_object_new_object, "hostnqn",
                  json_object_new_string(h.hostnqn))
        o2 == AddString(o1, "hostid", h.hostid)
        o3 == AddString(o2, "dhchap_key", h.dhchap_key)
    IN  ExportPdc(AddString(o3, "hostsymname",
                            IF symname THEN h.hostsymname ELSE NULL), h)

\* lines 484-491: the host is kept only with subsystems
AddHost(json_root_, host_obj, subsys_array) ==
    IF json_object_array_length(subsys_array) # 0
    THEN json_object_array_add(json_root_,
             json_object_object_add(host_obj, "subsystems", subsys_array))
    ELSE json_root_

\* lines 455-492: one round of nvme_for_each_host
json_update_host(json_root_, e, h) ==
    AddHost(json_root_, ExportHost(h, TRUE),
            json_update_subsystems(json_object_new_array, e,
                                   h.subsystems, 1))

RECURSIVE json_update_hosts(_, _, _, _)
json_update_hosts(json_root_, e, r, i) ==
    IF i > Len(r) THEN json_root_
    ELSE json_update_hosts(json_update_host(json_root_, e, r[i]), e, r, i + 1)

\* lines 454-492: the document json_update_config writes
json_update_config_doc(r, e) ==
    json_update_hosts(json_object_new_array, e, r, 1)

\* lines 564-570: TLS only for tcp
DumpCtrlTls(obj, e, cfg, transport) ==
    IF transport = "tcp"
    THEN UpdatePortTlsKey(JSON_BOOL_OPTION(cfg, obj, "tls"), e, cfg)
    ELSE obj

\* lines 560-571: the boolean tunables of the dump
DumpCtrlBoolOptions(obj, e, cfg, transport) ==
    LET o1 == JSON_BOOL_OPTION(cfg, obj, "duplicate_connect")
        o2 == JSON_BOOL_OPTION(cfg, o1, "disable_sqflow")
        o3 == JSON_BOOL_OPTION(cfg, o2, "hdr_digest")
        o4 == JSON_BOOL_OPTION(cfg, o3, "data_digest")
    IN  JSON_BOOL_OPTION(cfg, DumpCtrlTls(o4, e, cfg, transport), "concat")

\* lines 517-520
DumpCtrlName(c) ==
    IF c.name # NULL /\ c.name # ""
    THEN json_object_object_add(json_object_new_object, "name",
                                json_object_new_string(c.name))
    ELSE json_object_new_object

\* lines 511-579
json_dump_ctrl(ctrl_array, e, c) ==
    json_object_array_add(ctrl_array,
        ExportFlags(
            DumpCtrlBoolOptions(
                ExportIntOptions(ExportIdentity(DumpCtrlName(c), c),
                                 c.cfg, c.transport),
                e, c.cfg, c.transport),
            c))

RECURSIVE json_dump_ctrls(_, _, _, _)
json_dump_ctrls(ctrl_array, e, ctrls, i) ==
    IF i > Len(ctrls) THEN ctrl_array
    ELSE json_dump_ctrls(json_dump_ctrl(ctrl_array, e, ctrls[i]),
                         e, ctrls, i + 1)

\* lines 596-600: the subsystem is always listed
AddDumpSubsys(subsys_array, subsys_obj, ctrl_array) ==
    json_object_array_add(subsys_array,
        IF json_object_array_length(ctrl_array) # 0
        THEN json_object_object_add(subsys_obj, "controllers", ctrl_array)
        ELSE subsys_obj)

\* lines 581-601
json_dump_subsys(subsys_array, e, s) ==
    AddDumpSubsys(subsys_array,
        json_object_object_add(
            json_object_object_add(json_object_new_object, "name",
                json_object_new_string(s.name)),
            "nqn", json_object_new_string(s.subsysnqn)),
        json_dump_ctrls(json_object_new_array, e, s.ctrls, 1))

RECURSIVE json_dump_subsystems(_, _, _, _)
json_dump_subsystems(subsys_array, e, subsystems, i) ==
    IF i > Len(subsystems) THEN subsys_array
    ELSE json_dump_subsystems(
             json_dump_subsys(subsys_array, e, subsystems[i]),
             e, subsystems, i + 1)

\* lines 634-639: the host is always listed
AddDumpHost(host_array, host_obj, subsys_array) ==
    json_object_array_add(host_array,
        IF json_object_array_length(subsys_array) # 0
        THEN json_object_object_add(host_obj, "subsystems", subsys_array)
        ELSE host_obj)

RECURSIVE json_dump_hosts(_, _, _, _)
json_dump_hosts(host_array, e, r, i) ==
    IF i > Len(r) THEN host_array
    ELSE json_dump_hosts(
             AddDumpHost(host_array, ExportHost(r[i], FALSE),
                 json_dump_subsystems(json_object_new_array, e,
                                      r[i].subsystems, 1)),
             e, r, i + 1)

\* lines 610-641: the document json_dump_tree writes
json_dump_tree_doc(r, e) ==
    json_object_object_add(json_object_new_object, "hosts",
        json_dump_hosts(json_object_new_array, e, r, 1))

----------------------------------------------------------------------------
(* The operations, step by step                                            *)

Malformed == [t |-> "malformed"]

\* a tokener that is not strict: text it cannot parse gives an empty array
json_tokener_parse_ex_lenient(f, n) ==
    IF f.text = Malformed \/ n # f.chunks THEN json_object_new_array
    ELSE f.text

\* json_tokener_parse_ex under JSON_TOKENER_STRICT on the first n of the
\* file's chunks: the document when the text is well formed and complete,
\* NULL otherwise (the text "null" parses to the NULL object as well)
json_tokener_parse_ex(f, n) ==
    IF f.text = Malformed \/ n # f.chunks THEN JNull ELSE f.text

\* lines 295-300: open(config_file, O_RDONLY)
json_read_config_open ==
    /\ pc = "idle"
    /\ root0' = root
    /\ IF file.exists
       THEN /\ pc' = "read"
            /\ UNCHANGED <<ret, errno>>
       ELSE /\ pc' = "done"
            /\ ret' = -1
            /\ errno' = ENOENT
    /\ fd_pos' = 0
    /\ len' = 0
    /\ UNCHANGED <<root, file, env, json_root, h_idx, calls, out, orig>>

\* lines 263-270: one read() of the loop: an error, data, or end of file
parse_json_read ==
    /\ pc = "read"
    /\ IF env.read_err = fd_pos + 1
       THEN /\ pc' = "read_failed"
            /\ UNCHANGED <<fd_pos, len>>
       ELSE IF fd_pos < file.chunks
       THEN /\ fd_pos' = fd_pos + 1
            /\ len' = len + 1
            /\ UNCHANGED pc
       ELSE /\ pc' = "read_eof"
            /\ UNCHANGED <<fd_pos, len>>
    /\ UNCHANGED <<root, root0, file, env, json_root, h_idx, ret, errno,
                   calls, out, orig>>

\* lines 272-287: the rest of parse_json
parse_json_tokener ==
    /\ pc \in {"read_failed", "read_eof"}
    /\ json_root' = IF pc = "read_failed" \/ len = 0 THEN JNull
                    ELSE json_tokener_parse_ex(file, len)
    /\ pc' = "parsed"
    /\ UNCHANGED <<root, root0, file, env, fd_pos, len, h_idx, ret, errno,
                   calls, out, orig>>

\* lines 302-312: the two format checks
json_read_config_check ==
    /\ pc = "parsed"
    /\ IF json_root = JNull \/ ~json_object_is_type(json_root, "array")
       THEN /\ errno' = EPROTO
            /\ ret' = -1
            /\ pc' = "done"
            /\ UNCHANGED h_idx
       ELSE /\ pc' = "hosts"
            /\ h_idx' = 0
            /\ UNCHANGED <<ret, errno>>
    /\ UNCHANGED <<root, root0, file, env, fd_pos, len, json_root, calls,
                   out, orig>>

\* lines 313-317: the loop goes on unless the process has faulted
HostDone(ps) ==
    /\ root' = ps.r
    /\ calls' = ps.calls
    /\ IF ps.segv
       THEN pc' = "crashed" /\ UNCHANGED h_idx
       ELSE h_idx' = h_idx + 1 /\ UNCHANGED pc

\* lines 313-317: one round of the host loop
json_read_config_host ==
    /\ pc = "hosts"
    /\ h_idx < json_object_array_length(json_root)
    /\ \E ub \in {"segv", "null"} :
         HostDone(ParseHostAt([r |-> root, calls |-> calls, segv |-> FALSE],
                              env, json_object_array_get_idx(json_root, h_idx),
                              ub))
    /\ UNCHANGED <<root0, file, env, fd_pos, len, json_root, ret, errno,
                   out, orig>>

\* lines 318-319
json_read_config_return ==
    /\ pc = "hosts"
    /\ h_idx >= json_object_array_length(json_root)
    /\ ret' = 0
    /\ pc' = "done"
    /\ UNCHANGED <<root, root0, file, env, fd_pos, len, json_root, h_idx,
                   errno, calls, out, orig>>

json_read_config ==
    \/ json_read_config_open
    \/ parse_json_read
    \/ parse_json_tokener
    \/ json_read_config_check
    \/ json_read_config_host
    \/ json_read_config_return

\* lines 447-509; config_file is a path or NULL (standard output)
json_update_config ==
    /\ pc = "idle"
    /\ \E config_file \in {"config.json", NULL} :
         /\ out' = json_update_config_doc(root, env)
         /\ root0' = root
         /\ IF env.write_ok
            THEN /\ ret' = 0
                 /\ UNCHANGED errno
                 /\ file' = IF config_file # NULL
                            THEN [exists |-> TRUE, chunks |-> 1,
                                  text |-> out']
                            ELSE file
            ELSE /\ ret' = -1
                 /\ errno' = EIO
                 /\ UNCHANGED file
         /\ pc' = IF config_file # NULL THEN "updated" ELSE "printed"
    /\ UNCHANGED <<root, env, fd_pos, len, json_root, h_idx, calls, orig>>

\* lines 603-653
json_dump_tree ==
    /\ pc = "idle"
    /\ out' = json_dump_tree_doc(root, env)
    /\ root0' = root
    /\ IF env.write_ok
       THEN ret' = 0 /\ UNCHANGED errno
       ELSE ret' = -1 /\ errno' = EIO
    /\ pc' = "dumped"
    /\ UNCHANGED <<root, file, env, fd_pos, len, json_root, h_idx, calls,
                   orig>>

----------------------------------------------------------------------------
(* The inputs: live topologies, documents and environments                *)

\* a document nests at most MaxRecords sibling records at the level it varies
MaxRecords == 3
\* an exported subsystem has at most MaxCtrls controllers
MaxCtrls == 2
\* an exported host has at most MaxSubsystems subsystems
MaxSubsystems == 2

SeqsUpTo(S, n) == UNION {[1..k -> S] : k \in 0..n}

Obj(entries) == [t |-> "object", o |-> entries]
Arr(elems) == [t |-> "array", a |-> elems]
JStr(s) == json_object_new_string(s)
JInt(i) == json_object_new_int(i)
JBool(b) == json_object_new_boolean(b)

HostNqn1 == "nqn.2014-08.org.nvmexpress:uuid:host1"
HostNqn2 == "nqn.2014-08.org.nvmexpress:uuid:host2"
HostNqnX == "nqn.2014-08.org.nvmexpress:uuid:hostX"
SubNqn(j) == IF j = 1 THEN "nqn.subsys1"
             ELSE IF j = 2 THEN "nqn.subsys2"
             ELSE IF j = 3 THEN "nqn.subsys3" ELSE "nqn.subsys4"
SubNqnX == "nqn.subsysX"
TrAddr(k) == IF k = 1 THEN "10.0.0.1"
             ELSE IF k = 2 THEN "10.0.0.2"
             ELSE IF k = 3 THEN "10.0.0.3" ELSE "10.0.0.4"

KeyringDesc == ".nvme"
GoodKey == "NVMeTLSkey-1:01:AAAA:"
BadKey == "NVMeTLSkey-1:09:????"

\* a secret store that knows the keyring ".nvme", holds key 9 and accepts
\* the key AAAA into ".nvme" (as 9) and into the default keyring (as 11);
\* resolvers that fail for host X, subsystem X and transport "fc"
Env0 ==
    [keyrings |-> (KeyringDesc :> 7),
     insert |-> (<<KeyringDesc, "AAAA">> :> 9) @@ (<<NULL, "AAAA">> :> 11),
     keys |-> (9 :> "AAAA"),
     no_host |-> {HostNqnX}, no_subsys |-> {SubNqnX}, no_ctrl |-> {"fc"},
     write_ok |-> TRUE, read_err |-> 0]

KeyringSerial == Env0.keyrings[KeyringDesc]
TlsKeyId == Env0.insert[<<KeyringDesc, "AAAA">>]
TlsKeyIdDefault == Env0.insert[<<NULL, "AAAA">>]

\* the store refuses every insertion
EnvNoInsert == [Env0 EXCEPT !.insert = <<>>]
\* the store refuses insertions into the keyring ".nvme", not into the
\* default keyring
EnvKeyringRefused ==
    [Env0 EXCEPT !.insert = (<<NULL, "AAAA">> :> TlsKeyIdDefault)]
\* the store has lost its keys and keyrings
EnvNoKeys == [Env0 EXCEPT !.keys = <<>>, !.keyrings = <<>>]
\* writing the document fails
EnvNoWrite == [Env0 EXCEPT !.write_ok = FALSE]

\* the value that means "not configured"
Sentinel(k) ==
    CASE k = "ctrl_loss_tmo" -> NVMF_DEF_CTRL_LOSS_TMO
      [] k = "tos" -> -1
      [] OTHER -> 0

IntOptionSet == {IntOptions[i] : i \in 1..Len(IntOptions)}
BoolOptionSet == {BoolOptions[i] : i \in 1..Len(BoolOptions)}

\* live configurations: the default one, and one attribute set
LiveCfgs ==
    {DefaultCfg}
    \cup {[DefaultCfg EXCEPT ![k] = v] :
              k \in IntOptionSet \ {"tos"}, v \in 1..MaxInt}
    \cup {[DefaultCfg EXCEPT !.tos = v] : v \in 0..MaxInt}
    \cup {[DefaultCfg EXCEPT ![k] = TRUE] : k \in BoolOptionSet}
    \cup {[DefaultCfg EXCEPT !.keyring = KeyringSerial],
          [DefaultCfg EXCEPT !.tls_key = TlsKeyId],
          [DefaultCfg EXCEPT !.keyring = KeyringSerial, !.tls_key = TlsKeyId,
                             !.tls = TRUE]}

Ctrl0(transport, k) ==
    [NewCtrl(transport, TrAddr(k), NULL, NULL, "4420")
       EXCEPT !.name = IF k = 1 THEN "nvme1" ELSE "nvme2"]

\* live controllers of the import scenarios
LiveCtrls ==
    {[Ctrl0("tcp", 1) EXCEPT !.cfg = cfg] : cfg \in LiveCfgs}
    \cup {[Ctrl0("tcp", 1) EXCEPT !.persistent = TRUE],
          [Ctrl0("tcp", 1) EXCEPT !.discovery_ctrl = TRUE],
          [Ctrl0("tcp", 1) EXCEPT !.dhchap_key = "DHHC-1:00:live-host:",
                                  !.dhchap_ctrl_key = "DHHC-1:00:live-ctrl:"]}

Subsys0(j, ctrls) ==
    [NewSubsystem(SubNqn(j)) EXCEPT !.name = "nvme-subsys0", !.ctrls = ctrls]

Host0(hostnqn, subsystems) ==
    [NewHost(hostnqn, NULL) EXCEPT !.subsystems = subsystems]

\* a host with attributes already set, owning one subsystem with one
\* controller
LiveHost(c) ==
    [Host0(HostNqn1,
           <<[Subsys0(1, <<c>>) EXCEPT !.application = "live-app"]>>)
       EXCEPT !.dhchap_key = "DHHC-1:00:live:", !.hostsymname = "live-name",
              !.pdc_enabled = TRUE, !.pdc_enabled_valid = TRUE]

\* the values a document gives an integer option
DocInts(k) == (0..(MaxInt + 1)) \cup {Sentinel(k)}

\* single attribute entries of a port record
DocEntries ==
    {<<k, JInt(v)>> : k \in {kk \in IntOptionSet : kk # "tos"},
                      v \in 0..(MaxInt + 1)}
    \cup {<<"tos", JInt(v)>> : v \in DocInts("tos")}
    \cup {<<"ctrl_loss_tmo", JInt(NVMF_DEF_CTRL_LOSS_TMO)>>,
          <<"queue_size", JStr("2")>>, <<"hdr_digest", JInt(1)>>}
    \cup {<<k, JBool(b)>> : k \in BoolOptionSet \cup {"persistent",
                                                     "discovery"},
                            b \in BOOLEAN}
    \cup {<<"keyring", JStr(KeyringDesc)>>, <<"keyring", JStr(".unknown")>>,
          <<"tls_key", JStr(GoodKey)>>, <<"tls_key", JStr(BadKey)>>,
          <<"dhchap_key", JStr("DHHC-1:00:doc-host:")>>,
          <<"dhchap_ctrl_key", JStr("DHHC-1:00:doc-ctrl:")>>}

\* entries that interact: the TLS flag, the keyring and the key
KeyEntries ==
    {<<"tls", JBool(b)>> : b \in BOOLEAN}
    \cup {<<"keyring", JStr(KeyringDesc)>>, <<"keyring", JStr(".unknown")>>,
          <<"tls_key", JStr(GoodKey)>>, <<"tls_key", JStr(BadKey)>>}

DistinctKeys(es) ==
    \A i, j \in 1..Len(es) : i # j => es[i][1] # es[j][1]

\* the attribute lists of a port record: one entry, or two or three of the
\* interacting ones in any order
AttrLists ==
    {<<e>> : e \in DocEntries}
    \cup {es \in [1..2 -> KeyEntries] \cup [1..3 -> KeyEntries] :
              DistinctKeys(es)}

PortId(transport, k) ==
    <<<<"transport", JStr(transport)>>, <<"traddr", JStr(TrAddr(k))>>,
      <<"trsvcid", JStr("4420")>>>>

PortRec(transport, k, attrs) == Obj(PortId(transport, k) \o attrs)
SubsysRec(j, ports) ==
    Obj(<<<<"nqn", JStr(SubNqn(j))>>, <<"ports", Arr(ports)>>>>)
HostRec(hostnqn, subsystems) ==
    Obj(<<<<"hostnqn", JStr(hostnqn)>>, <<"subsystems", Arr(subsystems)>>>>)

File(text) == [exists |-> TRUE, chunks |-> 1, text |-> text]

----------------------------------------------------------------------------
(* Scenarios of json_read_config: [r, f, e] = live topology, file,        *)
(* environment                                                            *)

Decodable(attrs) ==
    \E i \in 1..Len(attrs) :
        attrs[i][1] = "tls_key" /\ attrs[i][2] = JStr(GoodKey)

\* one live controller and one port record for it
AttrScenarios ==
    UNION {{[r |-> <<LiveHost(c)>>,
             f |-> File(Arr(<<HostRec(HostNqn1,
                        <<SubsysRec(1, <<PortRec("tcp", 1, attrs)>>)>>)>>)),
             e |-> e] :
               c \in LiveCtrls,
               e \in IF Decodable(attrs) THEN {Env0, EnvNoInsert}
                     ELSE {Env0}} :
           attrs \in AttrLists}

PortA == PortRec("tcp", 1, <<<<"queue_size", JInt(2)>>>>)
PortB == PortRec("rdma", 2, <<<<"hdr_digest", JBool(TRUE)>>>>)

\* sibling port records: good ones, one without transport, one the
\* resolver refuses, a null element
WalkPorts ==
    {PortA, PortB,
     Obj(<<<<"traddr", JStr(TrAddr(3))>>, <<"queue_size", JInt(2)>>>>),
     PortRec("fc", 3, <<<<"queue_size", JInt(2)>>>>),
     PortRec("tcp", 2, <<<<"dhchap_key", JStr("DHHC-1:00:doc-host:")>>>>),
     JNull}

SubsysA ==
    Obj(<<<<"nqn", JStr(SubNqn(1))>>, <<"application", JStr("doc-app")>>,
          <<"ports", Arr(<<PortA>>)>>>>)
SubsysB == SubsysRec(2, <<PortB>>)

\* sibling subsystem records: good ones, one without nqn, one the resolver
\* refuses, one without ports, a null element
WalkSubsystems ==
    {SubsysA, SubsysB,
     Obj(<<<<"application", JStr("doc-app")>>, <<"ports", Arr(<<PortB>>)>>>>),
     Obj(<<<<"nqn", JStr(SubNqnX)>>, <<"application", JStr("doc-app")>>,
           <<"ports", Arr(<<PortA>>)>>>>),
     Obj(<<<<"nqn", JStr(SubNqn(3))>>, <<"application", JStr("doc-app")>>>>),
     JNull}

HostA ==
    Obj(<<<<"hostnqn", JStr(HostNqn1)>>,
          <<"dhchap_key", JStr("DHHC-1:00:doc:")>>,
          <<"hostsymname", JStr("doc-name")>>,
          <<"persistent_discovery_ctrl", JBool(FALSE)>>,
          <<"subsystems", Arr(<<SubsysA>>)>>>>)
HostB ==
    Obj(<<<<"hostnqn", JStr(HostNqn2)>>, <<"hostid", JStr("id-2")>>,
          <<"subsystems", Arr(<<SubsysB>>)>>>>)

\* sibling host records: good ones, one without hostnqn, three the resolver
\* refuses (with attributes, with subsystems only, with neither), a null
\* element
WalkHosts ==
    {HostA, HostB,
     Obj(<<<<"hostid", JStr("id-3")>>,
           <<"dhchap_key", JStr("DHHC-1:00:doc:")>>,
           <<"subsystems", Arr(<<SubsysB>>)>>>>),
     Obj(<<<<"hostnqn", JStr(HostNqnX)>>,
           <<"dhchap_key", JStr("DHHC-1:00:doc:")>>>>),
     HostRec(HostNqnX, <<SubsysA>>),
     Obj(<<<<"hostnqn", JStr(HostNqnX)>>>>),
     JNull}

NonEmpty(S) == {x \in S : Len(x) > 0}

WalkDocs ==
    {Arr(hs) : hs \in NonEmpty(SeqsUpTo(WalkHosts, MaxRecords))}
    \cup {Arr(<<HostRec(HostNqn1, ss)>>) :
              ss \in NonEmpty(SeqsUpTo(WalkSubsystems, MaxRecords))}
    \cup {Arr(<<HostRec(HostNqn1, <<SubsysRec(1, ps)>>)>>) :
              ps \in NonEmpty(SeqsUpTo(WalkPorts, MaxRecords))}

WalkRoots == {<<>>, <<LiveHost(Ctrl0("tcp", 1))>>}

WalkScenarios ==
    {[r |-> r, f |-> File(d), e |-> Env0] : r \in WalkRoots, d \in WalkDocs}

NoFile == [exists |-> FALSE, chunks |-> 0, text |-> Malformed]

\* file contents: malformed text, well-formed documents whose top level is
\* not an array, and arrays
FormatTexts ==
    {Malformed, JNull, JInt(1), JStr("hosts"), HostA,
     Obj(<<<<"hosts", Arr(<<HostA>>)>>>>),
     Arr(<<>>), Arr(<<HostA>>), Arr(<<HostB, HostA>>)}

FormatFiles ==
    {NoFile, [exists |-> TRUE, chunks |-> 0, text |-> Malformed]}
    \cup {[exists |-> TRUE, chunks |-> n, text |-> t] :
              n \in 1..MaxChunks, t \in FormatTexts}

FormatScenarios ==
    {[r |-> r, f |-> f, e |-> [Env0 EXCEPT !.read_err = k]] :
        r \in WalkRoots, f \in FormatFiles, k \in 0..(MaxChunks + 1)}

ReadScenarios == AttrScenarios \cup WalkScenarios \cup FormatScenarios

InitCommon ==
    /\ root0 = root
    /\ pc = "idle"
    /\ fd_pos = 0
    /\ len = 0
    /\ json_root = JNull
    /\ h_idx = 0
    /\ ret = 0
    /\ errno = NOERR
    /\ calls = <<>>
    /\ out = JNull
    /\ orig = <<>>

InitRead ==
    /\ \E sc \in ReadScenarios : root = sc.r /\ file = sc.f /\ env = sc.e
    /\ InitCommon

NextRead ==
    \/ json_read_config_open
    \/ parse_json_read
    \/ parse_json_tokener
    \/ json_read_config_check
    \/ json_read_config_host
    \/ json_read_config_return

SpecRead == InitRead /\ [][NextRead]_vars

----------------------------------------------------------------------------
(* Scenarios of json_update_config and json_dump_tree: [r, e]             *)

Transports == {"tcp", "rdma", "loop", "pcie"}

\* configurations to export: one attribute set, and a few combinations
ExportCfgs ==
    LiveCfgs
    \cup {[DefaultCfg EXCEPT !.ctrl_loss_tmo = 1, !.fast_io_fail_tmo = 1,
                             !.tos = 0],
          [DefaultCfg EXCEPT !.tls = TRUE, !.tls_key = TlsKeyId],
          [DefaultCfg EXCEPT !.tls_key = TlsKeyIdDefault],
          [DefaultCfg EXCEPT !.keyring = KeyringSerial + 1]}

ExportCtrls ==
    {[Ctrl0(tr, 1) EXCEPT !.cfg = cfg] : tr \in Transports, cfg \in ExportCfgs}
    \cup {[Ctrl0(tr, 1) EXCEPT !.persistent = p, !.discovery_ctrl = d,
                               !.dhchap_key = k] :
              tr \in Transports, p \in BOOLEAN, d \in BOOLEAN,
              k \in {NULL, "DHHC-1:00:live-host:"}}

AttrTopologies ==
    {<<LiveHost(c)>> : c \in ExportCtrls}
    \cup {<<Host0(HostNqn1, <<Subsys0(1, <<c>>)>>)>> :
              c \in {Ctrl0(tr, 1) : tr \in Transports}}

\* the controllers of a subsystem, by transport
CtrlsOf(trs) == [k \in 1..Len(trs) |-> Ctrl0(trs[k], k)]

\* a subsystem is an ordinary one or a discovery subsystem
SubsysShapes ==
    [disc : {FALSE}, trs : SeqsUpTo({"tcp", "pcie"}, MaxCtrls)]
    \cup [disc : {TRUE}, trs : {<<>>, <<"tcp">>, <<"tcp", "pcie">>}]

SubsystemsOf(shapes) ==
    [j \in 1..Len(shapes) |->
        [Subsys0(j, CtrlsOf(shapes[j].trs))
           EXCEPT !.subsysnqn = IF shapes[j].disc THEN NVME_DISC_SUBSYS_NAME
                                ELSE SubNqn(j)]]

SecondHosts ==
    {<<>>,
     <<Host0(HostNqn2, <<>>)>>,
     <<Host0(HostNqn2, <<Subsys0(1, <<Ctrl0("tcp", 1)>>)>>)>>,
     <<Host0(HostNqn2, <<Subsys0(1, <<Ctrl0("pcie", 1)>>)>>)>>}

ShapeTopologies ==
    {<<Host0(HostNqn1, SubsystemsOf(shapes))>> \o second :
        shapes \in SeqsUpTo(SubsysShapes, MaxSubsystems),
        second \in SecondHosts}

WriteScenarios ==
    {[r |-> r, e |-> e] :
        r \in AttrTopologies, e \in {Env0, EnvNoKeys, EnvNoWrite}}
    \cup {[r |-> r, e |-> Env0] : r \in ShapeTopologies}

InitWrite ==
    /\ \E sc \in WriteScenarios : root = sc.r /\ env = sc.e
    /\ file = NoFile
    /\ InitCommon

NextWrite ==
    \/ json_update_config
    \/ json_dump_tree

SpecWrite == InitWrite /\ [][NextWrite]_vars

----------------------------------------------------------------------------
(* Round trip: export a topology, then read the file into the same nodes  *)
(* with every attribute unset                                             *)

UnsetCtrl(c) ==
    [NewCtrl(c.transport, c.traddr, c.host_traddr, c.host_iface, c.trsvcid)
       EXCEPT !.name = c.name]

UnsetSubsystem(s) ==
    [NewSubsystem(s.subsysnqn)
       EXCEPT !.name = s.name,
              !.ctrls = [k \in 1..Len(s.ctrls) |-> UnsetCtrl(s.ctrls[k])]]

UnsetHost(h) ==
    [NewHost(h.hostnqn, h.hostid)
       EXCEPT !.subsystems = [j \in 1..Len(h.subsystems) |->
                                 UnsetSubsystem(h.subsystems[j])]]

Unset(r) == [i \in 1..Len(r) |-> UnsetHost(r[i])]

\* the file json_update_config wrote is about to be read into the unset
\* topology
StartReimport ==
    /\ pc = "updated"
    /\ ret = 0
    /\ orig' = root
    /\ root' = Unset(root)
    /\ pc' = "idle"
    /\ UNCHANGED <<root0, file, env, fd_pos, len, json_root, h_idx, ret,
                   errno, calls, out>>

InitRoundTrip ==
    /\ \E sc \in WriteScenarios :
           root = sc.r /\ env = sc.e /\ sc.e \in {Env0, EnvNoKeys}
    /\ file = NoFile
    /\ InitCommon

\* the export runs on the topology T, the import on the unset one
NextRoundTrip ==
    \/ (orig = <<>> /\ root # <<>> /\ json_update_config)
    \/ StartReimport
    \/ (orig # <<>> /\ NextRead)

SpecRoundTrip == InitRoundTrip /\ [][NextRoundTrip]_vars

----------------------------------------------------------------------------
(* Repeated import: json_read_config is called twice on the same file     *)

\* attribute lists of the port records of a document that names the same
\* controller more than once
RepeatAttrs ==
    {<<<<"tos", JInt(v)>>>> : v \in DocInts("tos")}
    \cup {<<<<"ctrl_loss_tmo", JInt(v)>>>> : v \in DocInts("ctrl_loss_tmo")}
    \cup {<<<<"queue_size", JInt(v)>>>> : v \in 0..(MaxInt + 1)}
    \cup {<<<<k, JBool(b)>>>> : k \in {"tls", "persistent"}, b \in BOOLEAN}
    \cup {<<<<"keyring", JStr(KeyringDesc)>>>>,
          <<<<"tls_key", JStr(GoodKey)>>>>,
          <<<<"dhchap_key", JStr("DHHC-1:00:doc-host:")>>>>,
          <<<<"keyring", JStr(KeyringDesc)>>, <<"tls_key", JStr(GoodKey)>>>>,
          <<<<"tls_key", JStr(GoodKey)>>, <<"keyring", JStr(KeyringDesc)>>>>}

\* the live controllers a repeated record meets
RepeatCtrls ==
    {c \in LiveCtrls :
        \A k \in (IntOptionSet \cup BoolOptionSet)
                     \ {"tos", "ctrl_loss_tmo", "queue_size", "tls"} :
            c.cfg[k] = DefaultCfg[k]}

\* one or two port records for the same controller
RepeatPorts ==
    {<<PortRec("tcp", 1, a)>> : a \in RepeatAttrs}
    \cup {<<PortRec("tcp", 1, a), PortRec("tcp", 1, b)>> :
              a \in RepeatAttrs, b \in RepeatAttrs}

HasTlsKey(ports) ==
    \E i \in 1..Len(ports) : HasKey(ports[i], "tls_key")

\* the secret stores a repeated import of these port records is run against
RepeatEnvs(ports) ==
    IF HasTlsKey(ports)
    THEN {Env0, EnvNoInsert, EnvKeyringRefused}
    ELSE {Env0}

\* the document with one host record, one subsystem record and these ports
RepeatFile(ports) ==
    File(Arr(<<HostRec(HostNqn1, <<SubsysRec(1, ports)>>)>>))

\* json_read_config has returned 0 and is about to be called again on the
\* same file
StartSecondRun ==
    /\ pc = "done"
    /\ ret = 0
    /\ orig = <<>>
    /\ root # <<>>
    /\ orig' = root
    /\ pc' = "idle"
    /\ UNCHANGED <<root, root0, file, env, fd_pos, len, json_root, h_idx, ret,
                   errno, calls, out>>

InitTwice ==
    /\ \/ \E ports \in RepeatPorts, c \in RepeatCtrls :
              \E e \in RepeatEnvs(ports) :
                  root = <<LiveHost(c)>> /\ file = RepeatFile(ports) /\ env = e
       \/ \E sc \in WalkScenarios :
              root = sc.r /\ file = sc.f /\ env = sc.e
    /\ InitCommon

NextTwice ==
    \/ NextRead
    \/ StartSecondRun

SpecTwice == InitTwice /\ [][NextTwice]_vars

----------------------------------------------------------------------------
(* Properties of the import of one port record into one live controller   *)

\* the files that hold one host record with one subsystem record with one
\* port record for the controller of the live host
AttrFiles == {sc.f : sc \in AttrScenarios}

\* json_read_config has returned 0 after importing one port record into a
\* controller that was live before
OnePortImported ==
    /\ pc = "done"
    /\ ret = 0
    /\ file \in AttrFiles
    /\ Len(root0) = 1

\* the port record, the controller before the import and after it
ThePort ==
    json_object_object_get(
        json_object_object_get(file.text.a[1], "subsystems").a[1],
        "ports").a[1]
CtrlBefore == root0[1].subsystems[1].ctrls[1]
CtrlAfter == root[1].subsystems[1].ctrls[1]

DocInt(k) == json_object_get_int(json_object_object_get(ThePort, k))
DocBool(k) == json_object_get_boolean(json_object_object_get(ThePort, k))

\* C1: after json_update_attributes, every integer and boolean tunable
\* that differed from its sentinel before the import is unchanged, and
\* every one that equalled its sentinel and is supplied by the record has
\* the document's value.
C1_FillOnlyIfUnset ==
    OnePortImported =>
        /\ \A k \in IntOptionSet :
             /\ CtrlBefore.cfg[k] # Sentinel(k)
                    => CtrlAfter.cfg[k] = CtrlBefore.cfg[k]
             /\ (CtrlBefore.cfg[k] = Sentinel(k) /\ HasKey(ThePort, k))
                    => CtrlAfter.cfg[k] = DocInt(k)
        /\ \A k \in BoolOptionSet :
             /\ CtrlBefore.cfg[k] => CtrlAfter.cfg[k]
             /\ (~CtrlBefore.cfg[k] /\ HasKey(ThePort, k))
                    => CtrlAfter.cfg[k] = DocBool(k)

\* C10: a classification flag that was unset and is supplied by the record
\* has the document's value after the import: false stays false, true
\* sets it.
C10_FlagsTakeDocumentValue ==
    OnePortImported =>
        /\ (~CtrlBefore.persistent /\ HasKey(ThePort, "persistent"))
               => CtrlAfter.persistent = DocBool("persistent")
        /\ (~CtrlBefore.discovery_ctrl /\ HasKey(ThePort, "discovery"))
               => CtrlAfter.discovery_ctrl = DocBool("discovery")

\* the position of a key in a record, 0 when absent
KeyPos(obj, key) ==
    IF \E i \in 1..Len(obj.o) : obj.o[i][1] = key
    THEN CHOOSE i \in 1..Len(obj.o) : obj.o[i][1] = key
    ELSE 0

\* the record with the entries at positions i and j exchanged
SwapEntries(obj, i, j) ==
    [obj EXCEPT !.o = [n \in 1..Len(obj.o) |->
                          IF n = i THEN obj.o[j]
                          ELSE IF n = j THEN obj.o[i] ELSE obj.o[n]]]

\* the record with keyring and tls_key in the other order
OtherOrder(obj) ==
    SwapEntries(obj, KeyPos(obj, "keyring"), KeyPos(obj, "tls_key"))

CarriesBothKeys ==
    HasKey(ThePort, "keyring") /\ HasKey(ThePort, "tls_key")

IsInsert(call) == call.fn = "nvme_insert_tls_key_versioned"

\* the insertion at position i of calls was given the record's keyring,
\* after that keyring was looked up
KeyringResolvedFirst(i) ==
    /\ calls[i].keyring = OptString(ThePort, "keyring")
    /\ \E j \in 1..(i - 1) :
           /\ calls[j].fn = "nvme_lookup_keyring"
           /\ calls[j].keyring = OptString(ThePort, "keyring")

\* C8 as stated: for every record carrying both keyring and tls_key, the
\* key insertion is given the record's keyring, resolved before it.
C8_KeyringAlwaysResolved ==
    (OnePortImported /\ CarriesBothKeys) =>
        \A i \in 1..Len(calls) : IsInsert(calls[i]) => KeyringResolvedFirst(i)

\* the import of the record with keyring and tls_key in the other order
OtherOrderImport ==
    json_update_attributes(CtrlBefore, env, root0[1].hostnqn,
                           root0[1].subsystems[1].subsysnqn,
                           OtherOrder(ThePort), <<>>)

\* C8, amended: for a record carrying both keyring and tls_key, the
\* controller and the secret-store calls (so cfg->keyring, cfg->tls_key,
\* cfg->tls and the keyring given to the insertion) are the same for both
\* orders of the two fields; and when the live cfg->keyring was 0, the
\* insertion is given the record's keyring, resolved before it.
C8_TwoPhaseKeyImport ==
    (OnePortImported /\ CarriesBothKeys) =>
        /\ OtherOrderImport.c = CtrlAfter
        /\ OtherOrderImport.calls = calls
        /\ CtrlBefore.cfg.keyring = 0 =>
               \A i \in 1..Len(calls) :
                   IsInsert(calls[i]) => KeyringResolvedFirst(i)

\* a record with tls_key before keyring was imported into a controller
\* without keyring or key: the key was inserted into the record's keyring
C8_Witness ==
    /\ OnePortImported
    /\ CarriesBothKeys
    /\ KeyPos(ThePort, "tls_key") < KeyPos(ThePort, "keyring")
    /\ CtrlBefore.cfg.keyring = 0
    /\ CtrlBefore.cfg.tls_key = 0
    /\ \E i \in 1..Len(calls) :
           IsInsert(calls[i]) /\ calls[i].keyring = KeyringDesc
    /\ CtrlAfter.cfg.tls_key = TlsKeyId
    /\ CtrlAfter.cfg.keyring = KeyringSerial
    /\ CtrlAfter.cfg.tls

----------------------------------------------------------------------------
(* Properties of the tree walk of json_read_config                        *)

\* C9: a host's dhchap_key, hostsymname and valid persistent_discovery_ctrl
\* flag, a subsystem's application and a controller's dhchap_key and
\* dhchap_ctrl_key, once set on a live node, are left unchanged by an
\* import.
C9_OtherAttributesKept ==
    \A i \in 1..Len(root0) :
        /\ root0[i].dhchap_key # NULL
               => root[i].dhchap_key = root0[i].dhchap_key
        /\ root0[i].hostsymname # NULL
               => root[i].hostsymname = root0[i].hostsymname
        /\ root0[i].pdc_enabled_valid
               => /\ root[i].pdc_enabled_valid
                  /\ root[i].pdc_enabled = root0[i].pdc_enabled
        /\ \A j \in 1..Len(root0[i].subsystems) :
             /\ root0[i].subsystems[j].application # NULL
                    => root[i].subsystems[j].application
                           = root0[i].subsystems[j].application
             /\ \A k \in 1..Len(root0[i].subsystems[j].ctrls) :
                  /\ root0[i].subsystems[j].ctrls[k].dhchap_key # NULL
                         => root[i].subsystems[j].ctrls[k].dhchap_key
                                = root0[i].subsystems[j].ctrls[k].dhchap_key
                  /\ root0[i].subsystems[j].ctrls[k].dhchap_ctrl_key # NULL
                         => root[i].subsystems[j].ctrls[k].dhchap_ctrl_key
                                = root0[i].subsystems[j].ctrls[k].dhchap_ctrl_key

\* the records the walk is to skip: no identity, or the resolver has no
\* node for them
SkippedPort(e, p) ==
    \/ p = JNull
    \/ ~HasKey(p, "transport")
    \/ OptString(p, "transport") \in e.no_ctrl
SkippedSubsys(e, s) ==
    \/ s = JNull
    \/ ~HasKey(s, "nqn")
    \/ OptString(s, "nqn") \in e.no_subsys
SkippedHost(e, h) ==
    \/ h = JNull
    \/ ~HasKey(h, "hostnqn")
    \/ OptString(h, "hostnqn") \in e.no_host

\* a document without the records to skip
WithoutSkippedPorts(e, s) ==
    IF HasKey(s, "ports")
    THEN json_object_object_add(s, "ports",
             Arr(SelectSeq(json_object_object_get(s, "ports").a,
                           LAMBDA p : ~SkippedPort(e, p))))
    ELSE s
KeptSubsystems(e, subsystems) ==
    SelectSeq(subsystems, LAMBDA s : ~SkippedSubsys(e, s))
WithoutSkippedSubsystems(e, h) ==
    IF HasKey(h, "subsystems")
    THEN json_object_object_add(h, "subsystems",
             Arr([j \in 1..Len(KeptSubsystems(e,
                          json_object_object_get(h, "subsystems").a)) |->
                     WithoutSkippedPorts(e,
                         KeptSubsystems(e,
                             json_object_object_get(h, "subsystems").a)[j])]))
    ELSE h
KeptHosts(e, hosts) == SelectSeq(hosts, LAMBDA h : ~SkippedHost(e, h))
WithoutSkipped(e, doc) ==
    Arr([i \in 1..Len(KeptHosts(e, doc.a)) |->
            WithoutSkippedSubsystems(e, KeptHosts(e, doc.a)[i])])

\* the import of all host records of a document
RECURSIVE ImportHosts(_, _, _, _)
ImportHosts(ps, e, hosts, i) ==
    IF i > Len(hosts) THEN ps
    ELSE ImportHosts(ParseHostAt(ps, e, hosts[i], "null"), e, hosts, i + 1)

ImportWithoutSkipped ==
    ImportHosts([r |-> root0, calls |-> <<>>, segv |-> FALSE], env,
                WithoutSkipped(env, json_root).a, 1)

\* json_read_config has got through the records of an array document, or
\* has stopped in them
WalkEnded ==
    /\ pc \in {"done", "crashed"}
    /\ json_object_is_type(json_root, "array")

\* C6: whatever records of the document are skipped (no hostnqn, nqn or
\* transport, or no node from the resolver), json_read_config returns 0 and
\* the topology is the one the import of the document without those
\* records gives.
C6_PartialFailureTolerant ==
    WalkEnded =>
        /\ pc = "done"
        /\ ret = 0
        /\ root = ImportWithoutSkipped.r
        /\ calls = ImportWithoutSkipped.calls

\* the file opens, and its content does not parse or is not an array
BadFormat ==
    /\ file.exists
    /\ \/ file.chunks = 0
       \/ file.text = Malformed
       \/ ~json_object_is_type(file.text, "array")

\* C7: when the file opens but its content fails strict parsing (an empty
\* file included) or is not an array, json_read_config returns -1 with
\* errno EPROTO and the topology is what it was before the call; and no
\* host record is processed before the whole document is read and parsed.
C7_FormatErrorsFatal ==
    /\ BadFormat => pc \notin {"hosts", "crashed"}
    /\ (BadFormat /\ pc = "done")
           => ret = -1 /\ errno = EPROTO /\ root = root0 /\ calls = <<>>
    /\ pc \in {"read", "read_failed", "read_eof", "parsed"}
           => root = root0 /\ calls = <<>>
    /\ pc \in {"hosts", "crashed"}
           => fd_pos = file.chunks /\ json_root = file.text

\* a well-formed host object that is not inside an array was read in
\* several chunks into a topology with a live host, and was refused
C7_Witness ==
    /\ pc = "done"
    /\ file.exists
    /\ file.chunks > 1
    /\ fd_pos = file.chunks
    /\ file.text = HostA
    /\ root0 # <<>>
    /\ root = root0
    /\ ret = -1
    /\ errno = EPROTO

----------------------------------------------------------------------------
(* Properties of the two exports                                          *)

Elems(arr) == IF arr = JNull THEN {} ELSE {arr.a[i] : i \in 1..Len(arr.a)}
Children(recs, key) ==
    UNION {Elems(json_object_object_get(rec, key)) : rec \in recs}

ConfigExported == pc \in {"updated", "printed"}

\* the records of the document of json_update_config
ConfigHosts == IF ConfigExported THEN Elems(out) ELSE {}
ConfigSubsystems == Children(ConfigHosts, "subsystems")
ConfigPorts == Children(ConfigSubsystems, "ports")

\* the controller records of the document of json_dump_tree
DumpCtrls ==
    IF pc = "dumped"
    THEN Children(Children(Elems(json_object_object_get(out, "hosts")),
                           "subsystems"),
                  "controllers")
    ELSE {}

\* the controllers, subsystems and hosts that are to be persisted
Persisted(s) == SelectSeq(s.ctrls, LAMBDA c : c.transport # "pcie")
ExportedSubs(h) ==
    SelectSeq(h.subsystems,
              LAMBDA s : /\ s.subsysnqn # NVME_DISC_SUBSYS_NAME
                         /\ Persisted(s) # <<>>)
ExportedHosts(r) == SelectSeq(r, LAMBDA h : ExportedSubs(h) # <<>>)

\* the port records of host record i, subsystem record j
PortsOf(i, j) ==
    json_object_object_get(
        json_object_object_get(out.a[i], "subsystems").a[j], "ports").a

\* each port record of the document with the controller it was made from
PortPairs ==
    UNION {UNION {{<<PortsOf(i, j)[k],
                     Persisted(ExportedSubs(ExportedHosts(root)[i])[j])[k]>> :
                      k \in 1..Len(Persisted(
                                ExportedSubs(ExportedHosts(root)[i])[j]))} :
                  j \in 1..Len(ExportedSubs(ExportedHosts(root)[i]))} :
           i \in 1..Len(ExportedHosts(root))}

AlwaysExportedInts ==
    {"nr_io_queues", "nr_write_queues", "nr_poll_queues", "queue_size",
     "keep_alive_tmo", "reconnect_delay", "tos"}
FabricsOnlyInts == {"ctrl_loss_tmo", "fast_io_fail_tmo"}
ExportedBools ==
    {"duplicate_connect", "disable_sqflow", "hdr_digest", "data_digest",
     "concat"}

\* port record p omits exactly the defaults of controller c
OmitsDefaults(p, c) ==
    /\ \A k \in AlwaysExportedInts :
         IF c.cfg[k] # Sentinel(k)
         THEN json_object_object_get(p, k) = json_object_new_int(c.cfg[k])
         ELSE ~HasKey(p, k)
    /\ \A k \in FabricsOnlyInts :
         IF c.transport # "loop" /\ c.cfg[k] # Sentinel(k)
         THEN json_object_object_get(p, k) = json_object_new_int(c.cfg[k])
         ELSE ~HasKey(p, k)
    /\ \A k \in ExportedBools :
         IF c.cfg[k]
         THEN json_object_object_get(p, k) = json_object_new_boolean(TRUE)
         ELSE ~HasKey(p, k)

\* C3: in a port record of json_update_config, a numeric tunable is present
\* iff the live value differs from its sentinel (0, -1 for tos), a boolean
\* one iff it is true; ctrl_loss_tmo and fast_io_fail_tmo follow the rule
\* for every transport but "loop", where they are never emitted.
C3_DefaultOmission ==
    ConfigExported => \A pr \in PortPairs : OmitsDefaults(pr[1], pr[2])

\* a loop controller with tos 0 and both fabrics timeouts set was exported:
\* tos is in its record, the two timeouts are not
C3_Witness ==
    /\ ConfigExported
    /\ \E pr \in PortPairs :
         /\ pr[2].transport = "loop"
         /\ pr[2].cfg.tos = 0
         /\ pr[2].cfg.ctrl_loss_tmo # NVMF_DEF_CTRL_LOSS_TMO
         /\ pr[2].cfg.fast_io_fail_tmo # 0
         /\ pr[2].cfg.queue_size = 0
         /\ json_object_object_get(pr[1], "tos") = json_object_new_int(0)
         /\ ~HasKey(pr[1], "ctrl_loss_tmo")
         /\ ~HasKey(pr[1], "fast_io_fail_tmo")
         /\ ~HasKey(pr[1], "queue_size")

\* C4: in both exports, the record of a controller whose transport is not
\* "tcp" has no tls key and no tls_key key.
C4_TlsOnlyForTcp ==
    \A p \in ConfigPorts \cup DumpCtrls :
        OptString(p, "transport") # "tcp"
            => ~HasKey(p, "tls") /\ ~HasKey(p, "tls_key")

\* C5: in the document of json_update_config no subsystem record has the
\* discovery NQN, no port record has transport "pcie", every subsystem
\* record has a non-empty ports array and every host record a non-empty
\* subsystems array.
C5_ConfigExportPruning ==
    /\ \A h \in ConfigHosts :
         /\ HasKey(h, "subsystems")
         /\ json_object_array_length(
                json_object_object_get(h, "subsystems")) > 0
    /\ \A s \in ConfigSubsystems :
         /\ OptString(s, "nqn") # NVME_DISC_SUBSYS_NAME
         /\ HasKey(s, "ports")
         /\ json_object_array_length(json_object_object_get(s, "ports")) > 0
    /\ \A p \in ConfigPorts : OptString(p, "transport") # "pcie"

\* a host with a discovery subsystem that has a controller and with a
\* subsystem of one fabrics and one pcie controller, and a second host with
\* a pcie controller only, were exported: one host record with one
\* subsystem record with one port record
C5_Witness ==
    /\ ConfigExported
    /\ Len(root) = 2
    /\ \E j \in 1..Len(root[1].subsystems) :
         /\ root[1].subsystems[j].subsysnqn = NVME_DISC_SUBSYS_NAME
         /\ root[1].subsystems[j].ctrls # <<>>
    /\ \E j \in 1..Len(root[1].subsystems) :
         /\ root[1].subsystems[j].subsysnqn # NVME_DISC_SUBSYS_NAME
         /\ Len(root[1].subsystems[j].ctrls) = 2
         /\ Len(Persisted(root[1].subsystems[j])) = 1
    /\ root[2].subsystems # <<>>
    /\ ExportedSubs(root[2]) = <<>>
    /\ json_object_array_length(out) = 1
    /\ Len(PortsOf(1, 1)) = 1
    /\ ConfigSubsystems # {}
    /\ \A s \in ConfigSubsystems :
         json_object_array_length(json_object_object_get(s, "ports")) = 1

----------------------------------------------------------------------------
(* The round trip                                                          *)

\* the import of the exported document has ended
Reimported == orig # <<>> /\ pc \in {"done", "crashed"}

\* controller k of subsystem j of host i was exported
WasExported(i, j, k) ==
    /\ orig[i].subsystems[j].subsysnqn # NVME_DISC_SUBSYS_NAME
    /\ orig[i].subsystems[j].ctrls[k].transport # "pcie"

\* controller cn has the tunables and flags of controller co
SameAttributes(cn, co) ==
    /\ \A o \in IntOptionSet \cup BoolOptionSet : cn.cfg[o] = co.cfg[o]
    /\ cn.persistent = co.persistent
    /\ cn.discovery_ctrl = co.discovery_ctrl

\* what was at its sentinel in co is at its sentinel in cn
NothingMaterialized(cn, co) ==
    /\ \A o \in IntOptionSet :
         co.cfg[o] = Sentinel(o) => cn.cfg[o] = Sentinel(o)
    /\ \A o \in BoolOptionSet : ~co.cfg[o] => ~cn.cfg[o]
    /\ ~co.persistent => ~cn.persistent
    /\ ~co.discovery_ctrl => ~cn.discovery_ctrl

\* C2: after json_update_config on a topology and json_read_config of the
\* written document into the same nodes with every attribute unset, every
\* exported controller has the tunables and flags it had, and nothing that
\* was at its sentinel is off its sentinel.
C2_RoundTrip ==
    Reimported =>
        /\ pc = "done"
        /\ ret = 0
        /\ \A i \in 1..Len(orig) :
             \A j \in 1..Len(orig[i].subsystems) :
               \A k \in 1..Len(orig[i].subsystems[j].ctrls) :
                 /\ WasExported(i, j, k)
                        => SameAttributes(root[i].subsystems[j].ctrls[k],
                                          orig[i].subsystems[j].ctrls[k])
                 /\ NothingMaterialized(root[i].subsystems[j].ctrls[k],
                                        orig[i].subsystems[j].ctrls[k])

----------------------------------------------------------------------------
(* Repeated import                                                         *)

\* the second json_read_config on the same file has returned
SecondRunDone == orig # <<>> /\ pc = "done"

\* C11 as stated: after json_read_config has run twice on the same
\* document, every host, subsystem and controller attribute is what it was
\* after the first run.
C11_ImportIdempotent ==
    SecondRunDone => ret = 0 /\ root = orig

\* the first run left this controller with a keyring and without a key
KeyLeftOut(c) == c.cfg.keyring # 0 /\ c.cfg.tls_key = 0

\* controller c with tls_key and tls put aside
WithoutTlsKey(c) ==
    [c EXCEPT !.cfg.tls_key = 0, !.cfg.tls = FALSE]

\* the topology with tls_key and tls put aside in the controllers the
\* first run left with a keyring and without a key
ApartFromKeysLeftOut(r) ==
    [i \in 1..Len(r) |->
        [r[i] EXCEPT !.subsystems =
            [j \in 1..Len(r[i].subsystems) |->
                [r[i].subsystems[j] EXCEPT !.ctrls =
                    [k \in 1..Len(r[i].subsystems[j].ctrls) |->
                        IF /\ i <= Len(orig)
                           /\ j <= Len(orig[i].subsystems)
                           /\ k <= Len(orig[i].subsystems[j].ctrls)
                           /\ KeyLeftOut(orig[i].subsystems[j].ctrls[k])
                        THEN WithoutTlsKey(r[i].subsystems[j].ctrls[k])
                        ELSE r[i].subsystems[j].ctrls[k]]]]]]

\* C11, amended: after the second run every attribute is what it was after
\* the first, but for cfg->tls_key and cfg->tls of a controller that the
\* first run left with cfg->keyring set and cfg->tls_key still 0.
C11_IdempotentApartFromKeys ==
    SecondRunDone =>
        /\ ret = 0
        /\ ApartFromKeysLeftOut(root) = ApartFromKeysLeftOut(orig)

\* the port records of the document of a repeated import of one host
\* record with one subsystem record
RepeatedPorts ==
    json_object_object_get(
        json_object_object_get(file.text.a[1], "subsystems").a[1],
        "ports").a

\* a document with two port records for the one controller, the first
\* with tos and the second with keyring and tls_key, was imported twice
\* while the store refused the keyring: both runs left tos alike, the first
\* left the keyring without a key and the second put the key into the
\* default keyring
C11_Witness ==
    /\ SecondRunDone
    /\ ret = 0
    /\ env = EnvKeyringRefused
    /\ file = RepeatFile(RepeatedPorts)
    /\ Len(RepeatedPorts) = 2
    /\ HasKey(RepeatedPorts[1], "tos")
    /\ HasKey(RepeatedPorts[2], "keyring")
    /\ HasKey(RepeatedPorts[2], "tls_key")
    /\ KeyLeftOut(orig[1].subsystems[1].ctrls[1])
    /\ root[1].subsystems[1].ctrls[1].cfg.tls_key = TlsKeyIdDefault
    /\ root[1].subsystems[1].ctrls[1].cfg.tls
    /\ root[1].subsystems[1].ctrls[1].cfg.tos
           = orig[1].subsystems[1].ctrls[1].cfg.tos
    /\ root[1].subsystems[1].ctrls[1].cfg.tos
           = json_object_get_int(
                 json_object_object_get(RepeatedPorts[1], "tos"))

============================================================================
